---- MODULE Spec2Model ----
(***************************************************************************)
(* Discovery-and-deduplication pipeline of Web3.LOC:                       *)
(*   contract_discovery/enhanced_blockchain_client.py  (fetcher, hasher,   *)
(*       per-chain scanner, cross-chain manager)                           *)
(*   contract_discovery/contract_database.py           (contract store)    *)
(*   main.py                                           (Web3LOCSystem)     *)
(*                                                                         *)
(* The specifications share the variables:                                 *)
(*   SpecStore    calls on a ContractDatabase,                             *)
(*   Spec         a process that makes one discovery run,                  *)
(*   SpecSession  an interactive session of several discovery runs,        *)
(*   SpecRate     the requests of one client against a clock,              *)
(*   SpecFetch    one call of a fetch method on one explorer reply,        *)
(*   SpecChains   initialisation with some API keys, then a run,           *)
(*   SpecCancel   a discovery run that is cancelled during a scan,         *)
(*   SpecMerge    the cross-chain pass over two per-chain lists,           *)
(*   SpecHash     the two hashers on pairs of texts,                       *)
(*   SpecQuery    the queries on a filled table,                           *)
(*   SpecScan     a run on one chain, noted iteration by iteration,        *)
(*   SpecTasks    two scans on one client, interleaved at their awaits,    *)
(*   SpecRequests a run on both chains, noted request by request,          *)
(*   SpecProcess  a run whose storing steps may fail, noted per record.    *)
(***************************************************************************)
EXTENDS Integers, Sequences, FiniteSets, TLC

\* ------------------------------------------------------------------ bounds
\* candidate addresses per chain (the code lists 5 per chain)
NumAddr == 3
\* largest limit_per_chain a caller passes
MaxLimit == 2
\* discovery runs per behaviour
MaxRuns == 2
\* calls on the store per behaviour of SpecStore
MaxOps == 4
\* addresses used by direct calls on the store
NumStoreAddr == 2
\* clock ticks per behaviour of SpecRate
MaxTime == 5
\* requests per behaviour of SpecRate
MaxReq == 7
\* hex digits of a bytecode string handed to the hasher
MaxHexLen == 2
\* characters of a source text handed to the hasher
MaxSrcLen == 3
\* largest limit and largest offset of a query
MaxQueryLimit == 2
MaxOffset == 2

\* ------------------------------------------------------- program constants
\* Throttler(rate_limit=4, period=1.0); the clock counts fractions of a second
RateLimit == 4
TicksPerSecond == 2
Period == 1 * TicksPerSecond

\* supported_chains = ['ethereum', 'base'], iterated in this order
supported_chains == <<"ethereum", "base">>
Chains == {"ethereum", "base"}

\* ------------------------------------------------------------- text values
\* A string is a sequence of one-character strings.
Lower(ch) ==
    CASE ch = "A" -> "a"
      [] ch = "B" -> "b"
      [] ch = "X" -> "x"
      [] OTHER -> ch

\* a hasher that keeps the case of its input
LowerStrKeepCase(s) == s

\* str.lower()
RECURSIVE LowerStr(_)
LowerStr(s) ==
    IF s = <<>> THEN <<>> ELSE <<Lower(Head(s))>> \o LowerStr(Tail(s))

\* str.replace('0x', ''): every non-overlapping occurrence, left to right
RECURSIVE Remove0x(_)
Remove0x(s) ==
    IF Len(s) < 2 THEN s
    ELSE IF s[1] = "0" /\ s[2] = "x" THEN Remove0x(Tail(Tail(s)))
    ELSE <<Head(s)>> \o Remove0x(Tail(s))

IsSpace(ch) == ch \in {" ", "\n", "\t"}

\* a hasher that takes the source text as it is
JoinSplitNothing(s) == s

\* ' '.join(source_code.split()): the words separated by one space, with no
\* leading or trailing whitespace
RECURSIVE JoinSplit(_)
JoinSplit(s) ==
    IF s = <<>> THEN <<>>
    ELSE IF IsSpace(Head(s)) THEN JoinSplit(Tail(s))
    ELSE LET rest == JoinSplit(Tail(s))
         IN  IF Len(s) >= 2 /\ IsSpace(s[2]) /\ rest # <<>>
                THEN <<Head(s), " ">> \o rest
                ELSE <<Head(s)>> \o rest

\* hashlib.sha256(...).hexdigest(): the digest is taken to be injective and
\* is represented by its argument
Sha256(s) == s

_generate_bytecode_hash(bytecode) == Sha256(Remove0x(LowerStr(bytecode)))

_generate_source_hash(source_code) == Sha256(JoinSplit(source_code))

\* what the explorers may return
BytecodePool == { <<"0", "x", "A", "B">>, <<"a", "b">>, <<"0", "x", "c">> }
SourcePool == { <<"a", " ", " ", "b">>, <<" ", "a", "\n", "b">>, <<"c">> }

BytecodeHashes == { _generate_bytecode_hash(b) : b \in BytecodePool }
SourceHashes == { _generate_source_hash(s) : s \in SourcePool }

\* ------------------------------------------------------------------- state
VARIABLES
    \* ContractDatabase: the rows of table contracts in insertion order, and
    \* whether self.conn is set
    rows, conn,
    \* the last call on the store: its kind, argument and outcome
    lastOp, opCount,
    \* Web3LOCSystem.is_initialized, BlockchainClientManager._initialized,
    \* the keys of BlockchainClientManager.clients
    is_initialized, mgr_initialized, clients,
    \* EnhancedBlockchainClient.seen_bytecode_hashes / seen_source_hashes
    seen_bytecode_hashes, seen_source_hashes,
    \* position of the discovery run in progress
    pc, limit_per_chain, chainIdx, addrIdx, mergeIdx, procIdx,
    \* locals of get_verified_contracts and get_all_verified_contracts
    contracts, unique_contracts, all_contracts,
    global_bytecode_hashes, global_source_hashes,
    \* locals of _process_contracts, and what discover_contracts gave back
    results, returned, raised,
    \* the last duplicate check: its scope, hash pair and verdict
    lastCheck,
    \* what happened in the run in progress: failures met by the scanners,
    \* chains with an answered request, addresses examined per chain, the
    \* lists the scans returned, failed inserts, addresses
    \* with source and bytecode, the hashes fetched, whether all of it is
    \* stored as fetched, whether store and clients were empty at the start,
    \* and the result of the run before
    runNo, errs, oks, examined, scanOut, storeErrors, verified, fetchedB,
    fetchedS, fetchedSame, freshAtStart, prevReturned,
    \* one client's throttler against a clock
    clock, task_logs, slotTimes, reqTimes, lastReq,
    \* the API keys and probe answers the last initialization met
    lastInit,
    \* whether the run was cancelled, and what it had admitted by then
    cancelled,
    \* the last call of a fetch method: the method, what the explorer sent
    \* and what the caller got
    fetchOut,
    \* two per-chain lists and what the global pass makes of them in either
    \* order
    mergeIn, mergeOut,
    \* two texts and the hashes computed for them so far
    hashIn, hashOut,
    \* the last query on the store and its answer
    queryOut,
    \* the iterations of the scans of the run in progress: what each address
    \* was asked, what came back and what the scanner did with it
    scanLog,
    \* two tasks that scan on one client, and the pairs they admitted
    tasks, admitLog,
    \* the iterations of _process_contracts: what each record met and the
    \* counts before and after it
    procLog

storeVars == <<rows, conn, lastOp, opCount>>
sysVars == <<is_initialized, mgr_initialized, clients,
             seen_bytecode_hashes, seen_source_hashes>>
runVars == <<pc, limit_per_chain, chainIdx, addrIdx, mergeIdx, procIdx,
             contracts, unique_contracts, all_contracts,
             global_bytecode_hashes, global_source_hashes, results, returned,
             raised, lastCheck>>
histVars == <<runNo, errs, oks, examined, scanOut, storeErrors, verified,
              fetchedB, fetchedS, fetchedSame, freshAtStart, prevReturned>>
rateVars == <<clock, task_logs, slotTimes, reqTimes, lastReq>>
callVars == <<fetchOut, mergeIn, mergeOut, hashIn, hashOut, queryOut>>
logVars == <<scanLog, tasks, admitLog, procLog>>
extVars == <<lastInit, cancelled, callVars, logVars>>
vars == <<storeVars, sysVars, runVars, histVars, rateVars, extVars>>

\* ------------------------------------------------------------ ContractStore
\* ContractData, cut down to the fields that identify a record
ContractData(address, chain, bytecode_hash, source_hash) ==
    [address |-> address, chain |-> chain,
     bytecode_hash |-> bytecode_hash, source_hash |-> source_hash]

\* SELECT id FROM contracts WHERE bytecode_hash = ? OR source_hash = ?
existing(table, contract) ==
    \E i \in 1..Len(table) :
        \/ table[i].bytecode_hash = contract.bytecode_hash
        \/ table[i].source_hash = contract.source_hash

\* bytecode_hash TEXT UNIQUE, source_hash TEXT UNIQUE: the INSERT raises
\* when either column would repeat
UniqueViolation(table, contract) ==
    \/ \E i \in 1..Len(table) : table[i].bytecode_hash = contract.bytecode_hash
    \/ \E i \in 1..Len(table) : table[i].source_hash = contract.source_hash

\* the row that INSERT INTO contracts writes
NewRow(table, contract, summary) ==
    [id |-> Len(table) + 1,
     address |-> contract.address, chain |-> contract.chain,
     bytecode_hash |-> contract.bytecode_hash,
     source_hash |-> contract.source_hash,
     contract_summary |-> summary]

\* an insert that neither looks for an existing row nor has the columns
\* declared unique
InsertOutcomeUnchecked(table, open, contract, dbError) ==
    IF ~open \/ dbError THEN "failed" ELSE "inserted"

\* insert_contract, as its outcome: "inserted" returns True; "duplicate"
\* (an existing row has one of the hashes) and "failed" (no connection, or
\* an exception of the database, caught) return False
InsertOutcome(table, open, contract, dbError) ==
    IF ~open THEN "failed"
    ELSE IF dbError THEN "failed"
    ELSE IF existing(table, contract) THEN "duplicate"
    ELSE IF UniqueViolation(table, contract) THEN "failed"
    ELSE "inserted"

\* the table after insert_contract
RowsAfterInsert(table, open, contract, summary, dbError) ==
    IF InsertOutcome(table, open, contract, dbError) = "inserted"
        THEN Append(table, NewRow(table, contract, summary))
        ELSE table

\* an UPDATE without its WHERE clause
RowsAfterUpdateEverywhere(table, address, summary) ==
    [i \in 1..Len(table) |-> [table[i] EXCEPT !.contract_summary = summary]]

\* UPDATE contracts SET contract_summary = ? WHERE address = ?
RowsAfterUpdate(table, address, summary) ==
    [i \in 1..Len(table) |->
        IF table[i].address = address
            THEN [table[i] EXCEPT !.contract_summary = summary]
            ELSE table[i]]

StoreAddresses == 1..NumStoreAddr
Summaries == {"", "note"}
StoreInputs ==
    { ContractData(a, c, b, s) :
        a \in StoreAddresses, c \in Chains,
        b \in BytecodeHashes, s \in SourceHashes }

noOp == [op |-> "none"]

\* ContractDatabase.insert_contract(contract, summary)
insert_contract(contract, summary, dbError) ==
    /\ opCount < MaxOps
    /\ rows' = RowsAfterInsert(rows, conn, contract, summary, dbError)
    /\ lastOp' = [op |-> "insert", contract |-> contract,
                  dbError |-> dbError,
                  outcome |-> InsertOutcome(rows, conn, contract, dbError),
                  ret |-> InsertOutcome(rows, conn, contract, dbError)
                              = "inserted"]
    /\ opCount' = opCount + 1
    /\ UNCHANGED conn

\* ContractDatabase.update_contract_summary(address, summary)
update_contract_summary(address, summary) ==
    /\ opCount < MaxOps
    /\ rows' = IF conn THEN RowsAfterUpdate(rows, address, summary) ELSE rows
    /\ lastOp' = [op |-> "update", address |-> address, ret |-> conn]
    /\ opCount' = opCount + 1
    /\ UNCHANGED conn

\* ContractDatabase.close()
close ==
    /\ opCount < MaxOps
    /\ conn
    /\ conn' = FALSE
    /\ lastOp' = [op |-> "close"]
    /\ opCount' = opCount + 1
    /\ UNCHANGED rows

StoreInsert ==
    \E contract \in StoreInputs, summary \in {"auto"}, dbError \in BOOLEAN :
        insert_contract(contract, summary, dbError)

StoreUpdate ==
    \E address \in StoreAddresses, summary \in Summaries :
        update_contract_summary(address, summary)

StoreClose == close

\* ----------------------------------------------------- RateLimitedFetcher
\* Throttler.flush: the slots taken more than a period ago are forgotten
Flush(logs, now) == SelectSeq(logs, LAMBDA t : ~(now - t > Period))

\* Throttler.acquire may proceed: fewer than rate_limit slots in the period
throttler_ready(logs, now) == Len(Flush(logs, now)) < RateLimit

\* Throttler.acquire: the slot is logged with the time it was taken
throttler_acquire(logs, now) == Append(Flush(logs, now), now)

\* a request that gives its slot back when it fails
SlotsAfterRequestReleasing(logs, now, status) ==
    IF status = "ok" THEN throttler_acquire(logs, now) ELSE Flush(logs, now)

\* the throttler's log after _make_request: the slot taken on entering
\* `async with self.throttler` stays taken whatever the response is
SlotsAfterRequest(logs, now, status) == throttler_acquire(logs, now)

noReq == [kind |-> "none"]

\* what a request meets: status == '1', another status or HTTP code, or an
\* exception (timeout included)
RequestOutcomes == {"ok", "api_error", "http_error", "exception"}

\* EnhancedBlockchainClient._make_request, called for a probe
\* (test_connection), for source (get_contract_source) or for bytecode
\* (get_contract_bytecode): it waits for a slot, then asks the session
_make_request(kind, status) ==
    /\ Len(reqTimes) < MaxReq
    /\ throttler_ready(task_logs, clock)
    /\ task_logs' = SlotsAfterRequest(task_logs, clock, status)
    /\ slotTimes' = Append(slotTimes, clock)
    /\ reqTimes' = Append(reqTimes, clock)
    /\ lastReq' = [kind |-> kind, status |-> status, at |-> clock]
    /\ UNCHANGED clock

test_connection == \E status \in RequestOutcomes : _make_request("probe", status)

get_contract_source == \E status \in RequestOutcomes : _make_request("source", status)

get_contract_bytecode == \E status \in RequestOutcomes : _make_request("bytecode", status)

\* time passes
Tick ==
    /\ clock < MaxTime
    /\ clock' = clock + 1
    /\ UNCHANGED <<task_logs, slotTimes, reqTimes, lastReq>>

\* ------------------------------------------------------------- the clients
Min(a, b) == IF a < b THEN a ELSE b

\* test_addresses of a chain: two disjoint lists of candidate addresses
test_addresses(chain_name) ==
    [i \in 1..NumAddr |-> IF chain_name = "ethereum" THEN i ELSE NumAddr + i]

\* self.clients.items(): the available chains in insertion order
ClientSeq(avail) == SelectSeq(supported_chains, LAMBDA c : c \in avail)

\* a duplicate test that wants both hashes to be known
_is_duplicate_contract_and(bytecode_hash, source_hash, seenB, seenS) ==
    bytecode_hash \in seenB /\ source_hash \in seenS

\* EnhancedBlockchainClient._is_duplicate_contract
_is_duplicate_contract(bytecode_hash, source_hash, seenB, seenS) ==
    IF bytecode_hash \in seenB THEN TRUE
    ELSE IF source_hash \in seenS THEN TRUE
    ELSE FALSE

\* a manager that lets the failure of a client's construction escape
manager_initialize_raises_uncaught(keys) == keys # Chains

\* BlockchainClientManager.initialize: does an exception leave it?  The
\* construction of a client (ValueError without an API key), its session and
\* its probe sit in one try/except Exception per chain.
manager_initialize_raises(keys) == FALSE

\* a manager that keeps a client whose probe failed
manager_initialize_clients_unprobed(keys, probes) == keys

\* BlockchainClientManager.initialize: the chains whose client was kept, given
\* the chains with an API key and the chains whose probe succeeds
manager_initialize_clients(keys, probes) == keys \cap probes

\* GitHubStorageManager.initialize + is_available: a session exists when a
\* token is configured; errors of the GitHub API are caught where they occur
github_initialize_raises(token) == FALSE

\* Web3LOCSystem.initialize re-raises what its steps raise
initialize_raises(keys, token) ==
    manager_initialize_raises(keys) \/ github_initialize_raises(token)

noCheck == [scope |-> "none"]
noResult == [kind |-> "none"]
emptySeen == [c \in Chains |-> {}]
noOks == [c \in Chains |-> FALSE]
noneExamined == [c \in Chains |-> 0]
noOut == [c \in Chains |-> <<>>]

\* the dict discover_contracts returns when nothing was discovered
NoContracts ==
    [kind |-> "result", success |-> FALSE, message |-> "No contracts found",
     contracts_processed |-> 0, contracts_added |-> 0,
     duplicates_found |-> 0, errors |-> 0]

\* the dict discover_contracts returns from its except clause
DiscoveryFailed ==
    [kind |-> "result", success |-> FALSE, message |-> "Discovery failed",
     contracts_processed |-> 0, contracts_added |-> 0,
     duplicates_found |-> 0, errors |-> 1]

\* the dict _process_contracts starts from
InitialResults(n) ==
    [kind |-> "result", success |-> TRUE, message |-> "",
     contracts_processed |-> n, contracts_added |-> 0,
     duplicates_found |-> 0, errors |-> 0]

\* Web3LOCSystem.initialize(): a new manager with new clients for the chains
\* that have a key and answer the probe; GitHub storage when a token is set
initialize(keys, probes, token) ==
    /\ pc = "idle"
    /\ raised' = (raised \/ initialize_raises(keys, token))
    /\ is_initialized' = (is_initialized \/ ~initialize_raises(keys, token))
    /\ mgr_initialized' = TRUE
    /\ clients' = manager_initialize_clients(keys, probes)
    /\ seen_bytecode_hashes' = emptySeen
    /\ seen_source_hashes' = emptySeen
    /\ UNCHANGED <<pc, limit_per_chain, chainIdx, addrIdx, mergeIdx, procIdx,
                   contracts, unique_contracts, all_contracts,
                   global_bytecode_hashes, global_source_hashes, results,
                   returned, lastCheck>>
    /\ UNCHANGED <<storeVars, histVars, rateVars>>

\* Web3LOCSystem.cleanup(), between or after discovery runs: the manager
\* drops its clients; is_initialized stays set
cleanup ==
    /\ pc \in {"idle", "returned"}
    /\ mgr_initialized
    /\ clients' = {}
    /\ mgr_initialized' = FALSE
    /\ seen_bytecode_hashes' = emptySeen
    /\ seen_source_hashes' = emptySeen
    /\ UNCHANGED is_initialized
    /\ UNCHANGED <<pc, storeVars, histVars, rateVars>>
    /\ UNCHANGED <<limit_per_chain, chainIdx, addrIdx, mergeIdx, procIdx,
                   contracts, unique_contracts, all_contracts,
                   global_bytecode_hashes, global_source_hashes, results,
                   returned, raised, lastCheck>>

\* a loop over the chains that is left after its first chain
AfterChainFirstOnly(avail, k) ==
    IF k = 0 /\ Len(ClientSeq(avail)) > 0 THEN "scan" ELSE "collected"

\* where get_all_verified_contracts goes after chain number k of avail: the
\* scan of the next chain, or its return
AfterChain(avail, k) == IF k < Len(ClientSeq(avail)) THEN "scan" ELSE "collected"

\* discover_contracts(limit_per_chain=limit), up to the first request: the
\* lazy initialize() and the start of get_all_verified_contracts
discover_contracts(limit, keys, probes, token) ==
    LET lazy == ~is_initialized
        failed == lazy /\ initialize_raises(keys, token)
        avail == IF lazy THEN manager_initialize_clients(keys, probes)
                 ELSE clients
        seenB == IF lazy THEN emptySeen ELSE seen_bytecode_hashes
        seenS == IF lazy THEN emptySeen ELSE seen_source_hashes
    IN  /\ pc = "idle"
        /\ runNo' = runNo + 1
        /\ raised' = (raised \/ failed)
        /\ is_initialized' = (is_initialized \/ ~failed)
        /\ mgr_initialized' = (mgr_initialized \/ lazy)
        /\ clients' = avail
        /\ seen_bytecode_hashes' = seenB
        /\ seen_source_hashes' = seenS
        /\ limit_per_chain' = limit
        /\ pc' = IF failed THEN "returned" ELSE AfterChain(avail, 0)
        /\ chainIdx' = 1
        /\ addrIdx' = 1
        /\ mergeIdx' = 1
        /\ procIdx' = 1
        /\ contracts' = <<>>
        /\ unique_contracts' = <<>>
        /\ all_contracts' = <<>>
        /\ global_bytecode_hashes' = {}
        /\ global_source_hashes' = {}
        /\ results' = noResult
        /\ returned' = noResult
        /\ prevReturned' = returned
        /\ lastCheck' = noCheck
        /\ errs' = 0
        /\ oks' = noOks
        /\ examined' = noneExamined
        /\ scanOut' = noOut
        /\ storeErrors' = 0
        /\ verified' = 0
        /\ fetchedB' = {}
        /\ fetchedS' = {}
        /\ fetchedSame' = TRUE
        /\ freshAtStart' = (rows = <<>> /\ seenB = emptySeen /\ seenS = emptySeen)
        /\ UNCHANGED <<storeVars, rateVars>>

\* the chain being scanned
CurChain == ClientSeq(clients)[chainIdx]

\* test_addresses[:limit]
NumCandidates == Min(limit_per_chain, NumAddr)

\* what a request may meet: a failure, an answer without SourceCode, or content
SourceReplies ==
    {[status |-> "error"], [status |-> "unverified"]}
    \cup {[status |-> "ok", SourceCode |-> s] : s \in SourcePool}
BytecodeReplies ==
    {[status |-> "error"]}
    \cup {[status |-> "ok", result |-> b] : b \in BytecodePool}

\* some row holds exactly this content for this address on this chain
StoredAs(table, address, chain, bh, sh) ==
    \E i \in 1..Len(table) :
        /\ table[i].address = address
        /\ table[i].chain = chain
        /\ table[i].bytecode_hash = bh
        /\ table[i].source_hash = sh

\* a list that takes a new record at its front
contracts_prepend(list, record) == <<record>> \o list

\* contracts.append(contract_data)
contracts_append(list, record) == Append(list, record)

\* one iteration of the loop of get_verified_contracts.  src is what
\* get_contract_source meets (status "error": the request failed, None;
\* "unverified": no SourceCode, None), byte what get_contract_bytecode
\* meets (bytecode is asked for only after source), runsOk whether the
\* payload's Runs field is a number (int() raises otherwise).
scan_address(src, byte, runsOk) ==
    LET c == CurChain
        address == test_addresses(c)[addrIdx]
        haveSource == src.status = "ok"
        haveBoth == haveSource /\ byte.status = "ok"
        bytecode_hash == _generate_bytecode_hash(byte.result)
        source_hash == _generate_source_hash(src.SourceCode)
        dup == _is_duplicate_contract(bytecode_hash, source_hash,
                                      seen_bytecode_hashes[c],
                                      seen_source_hashes[c])
        admitted == haveBoth /\ ~dup
        failures == (IF src.status = "error" THEN 1 ELSE 0)
                    + (IF haveSource /\ byte.status = "error" THEN 1 ELSE 0)
                    + (IF admitted /\ ~runsOk THEN 1 ELSE 0)
    IN  /\ pc = "scan"
        /\ addrIdx <= NumCandidates
        /\ addrIdx' = addrIdx + 1
        /\ seen_bytecode_hashes' =
              IF admitted
                 THEN [seen_bytecode_hashes EXCEPT ![c] = @ \cup {bytecode_hash}]
                 ELSE seen_bytecode_hashes
        /\ seen_source_hashes' =
              IF admitted
                 THEN [seen_source_hashes EXCEPT ![c] = @ \cup {source_hash}]
                 ELSE seen_source_hashes
        /\ contracts' =
              IF admitted /\ runsOk
                 THEN contracts_append(contracts,
                             ContractData(address, c, bytecode_hash, source_hash))
                 ELSE contracts
        /\ lastCheck' =
              IF haveBoth
                 THEN [scope |-> "client", bytecode_hash |-> bytecode_hash,
                       source_hash |-> source_hash, dup |-> dup]
                 ELSE noCheck
        /\ errs' = errs + failures
        /\ oks' = [oks EXCEPT ![c] = @ \/ src.status # "error"]
        /\ examined' = [examined EXCEPT ![c] = @ + 1]
        /\ verified' = IF haveBoth THEN verified + 1 ELSE verified
        /\ fetchedB' = IF haveBoth THEN fetchedB \cup {bytecode_hash} ELSE fetchedB
        /\ fetchedS' = IF haveBoth THEN fetchedS \cup {source_hash} ELSE fetchedS
        /\ fetchedSame' =
              IF haveBoth
                 THEN fetchedSame
                      /\ StoredAs(rows, address, c, bytecode_hash, source_hash)
                 ELSE fetchedSame
        /\ UNCHANGED <<is_initialized, mgr_initialized, clients>>
        /\ UNCHANGED <<pc, limit_per_chain, chainIdx, mergeIdx, procIdx,
                       unique_contracts, all_contracts, global_bytecode_hashes,
                       global_source_hashes, results, returned, raised>>
        /\ UNCHANGED <<runNo, scanOut, storeErrors, freshAtStart, prevReturned>>
        /\ UNCHANGED <<storeVars, rateVars>>

\* get_verified_contracts returns its list; the manager starts its global
\* pass over it
scan_return ==
    /\ pc = "scan"
    /\ addrIdx > NumCandidates
    /\ scanOut' = [scanOut EXCEPT ![CurChain] = contracts]
    /\ pc' = "merge"
    /\ mergeIdx' = 1
    /\ unique_contracts' = <<>>
    /\ lastCheck' = noCheck
    /\ UNCHANGED <<sysVars, storeVars, rateVars>>
    /\ UNCHANGED <<limit_per_chain, chainIdx, addrIdx, procIdx, contracts,
                   all_contracts, global_bytecode_hashes, global_source_hashes,
                   results, returned, raised>>
    /\ UNCHANGED <<runNo, errs, oks, examined, storeErrors, verified, fetchedB,
                   fetchedS, fetchedSame, freshAtStart, prevReturned>>

\* a global test that looks at the source hash alone
is_global_duplicate_source_only(bytecode_hash, source_hash, globalB, globalS) ==
    source_hash \in globalS

\* a global test with its condition the wrong way round
is_global_duplicate_inverted(bytecode_hash, source_hash, globalB, globalS) ==
    bytecode_hash \notin globalB /\ source_hash \notin globalS

\* the global test of get_all_verified_contracts: a record passes when
\* neither hash is in the global sets
is_global_duplicate(bytecode_hash, source_hash, globalB, globalS) ==
    ~(bytecode_hash \notin globalB /\ source_hash \notin globalS)

\* one iteration of the global pass over a chain's records
merge_contract ==
    LET contract == contracts[mergeIdx]
        dup == is_global_duplicate(contract.bytecode_hash, contract.source_hash,
                                   global_bytecode_hashes, global_source_hashes)
    IN  /\ pc = "merge"
        /\ mergeIdx <= Len(contracts)
        /\ mergeIdx' = mergeIdx + 1
        /\ global_bytecode_hashes' =
              IF dup THEN global_bytecode_hashes
              ELSE global_bytecode_hashes \cup {contract.bytecode_hash}
        /\ global_source_hashes' =
              IF dup THEN global_source_hashes
              ELSE global_source_hashes \cup {contract.source_hash}
        /\ unique_contracts' =
              IF dup THEN unique_contracts ELSE Append(unique_contracts, contract)
        /\ lastCheck' = [scope |-> "global",
                         bytecode_hash |-> contract.bytecode_hash,
                         source_hash |-> contract.source_hash, dup |-> dup]
        /\ UNCHANGED <<sysVars, storeVars, histVars, rateVars>>
        /\ UNCHANGED <<pc, limit_per_chain, chainIdx, addrIdx, procIdx,
                       contracts, all_contracts, results, returned, raised>>

\* all_contracts.extend(unique_contracts), then the next chain
merge_return ==
    /\ pc = "merge"
    /\ mergeIdx > Len(contracts)
    /\ all_contracts' = all_contracts \o unique_contracts
    /\ pc' = AfterChain(clients, chainIdx)
    /\ chainIdx' = chainIdx + 1
    /\ addrIdx' = 1
    /\ mergeIdx' = 1
    /\ contracts' = <<>>
    /\ unique_contracts' = <<>>
    /\ lastCheck' = noCheck
    /\ UNCHANGED <<sysVars, storeVars, histVars, rateVars>>
    /\ UNCHANGED <<limit_per_chain, procIdx, global_bytecode_hashes,
                   global_source_hashes, results, returned, raised>>

\* discover_contracts after get_all_verified_contracts returned: the early
\* return when nothing was discovered, else the start of _process_contracts
collect ==
    /\ pc = "collected"
    /\ IF all_contracts = <<>>
          THEN /\ returned' = NoContracts
               /\ pc' = "returned"
               /\ UNCHANGED results
          ELSE /\ results' = InitialResults(Len(all_contracts))
               /\ pc' = "process"
               /\ UNCHANGED returned
    /\ procIdx' = 1
    /\ lastCheck' = noCheck
    /\ UNCHANGED <<sysVars, storeVars, histVars, rateVars>>
    /\ UNCHANGED <<limit_per_chain, chainIdx, addrIdx, mergeIdx, contracts,
                   unique_contracts, all_contracts, global_bytecode_hashes,
                   global_source_hashes, raised>>

\* a loop whose GitHub and README steps have no try of their own
processing_raises_uncaught(ghRaises, readme) == ghRaises \/ readme = "raises"

\* does an exception of the steps after the insert reach the except clause
\* of the loop?  store_contract and generate_readme each sit in a try of
\* their own that catches Exception.
processing_raises(ghRaises, readme) == FALSE

\* one iteration of the loop of _process_contracts.  dbError: the database
\* raises during the insert; ghRaises: store_contract raises; readme:
\* "off" (generate_readmes is false), "ok" or "raises" (generate_readme);
\* the list readme_files of the result is left out.
\* analyze_contract and insert_contract catch their own exceptions and the
\* two inner try blocks catch the rest, so the loop's except clause, the one
\* place that adds to errors, has nothing to catch.
process_contract(dbError, ghRaises, readme) ==
    LET contract == all_contracts[procIdx]
        outcome == InsertOutcome(rows, conn, contract, dbError)
        ok == outcome = "inserted"
    IN  /\ pc = "process"
        /\ procIdx <= Len(all_contracts)
        /\ procIdx' = procIdx + 1
        /\ rows' = RowsAfterInsert(rows, conn, contract, "summary", dbError)
        /\ lastOp' = [op |-> "insert", contract |-> contract,
                      dbError |-> dbError, outcome |-> outcome, ret |-> ok]
        /\ results' =
              IF ok
                 THEN IF processing_raises(ghRaises, readme)
                         THEN [results EXCEPT !.contracts_added = @ + 1,
                                               !.errors = @ + 1]
                         ELSE [results EXCEPT !.contracts_added = @ + 1]
                 ELSE [results EXCEPT !.duplicates_found = @ + 1]
        /\ storeErrors' = IF outcome = "failed" THEN storeErrors + 1
                          ELSE storeErrors
        /\ lastCheck' = noCheck
        /\ UNCHANGED <<conn, opCount>>
        /\ UNCHANGED <<sysVars, rateVars>>
        /\ UNCHANGED <<pc, limit_per_chain, chainIdx, addrIdx, mergeIdx,
                       contracts, unique_contracts, all_contracts,
                       global_bytecode_hashes, global_source_hashes, returned,
                       raised>>
        /\ UNCHANGED <<runNo, errs, oks, examined, scanOut, verified, fetchedB,
                       fetchedS, fetchedSame, freshAtStart, prevReturned>>

\* _process_contracts returns results, and discover_contracts returns them
return_results ==
    /\ pc = "process"
    /\ procIdx > Len(all_contracts)
    /\ returned' = results
    /\ pc' = "returned"
    /\ lastCheck' = noCheck
    /\ UNCHANGED <<sysVars, storeVars, histVars, rateVars>>
    /\ UNCHANGED <<limit_per_chain, chainIdx, addrIdx, mergeIdx, procIdx,
                   contracts, unique_contracts, all_contracts,
                   global_bytecode_hashes, global_source_hashes, results,
                   raised>>

\* ---------------------------------------------------------- specifications
noInit == [keys |-> {}, probes |-> {}]
noCall == [op |-> "none"]
noTexts == [kind |-> "none"]
noLists == [ethereum |-> <<>>, base |-> <<>>]

\* nothing was logged yet: no scan, two tasks that have not started, no
\* record processed (start: the rows the store held when the run began)
InitLogs ==
    /\ scanLog = <<>>
    /\ tasks = [t \in {1, 2} |-> [pc |-> "idle"]]
    /\ admitLog = <<>>
    /\ procLog = [start |-> 0, last |-> [outcome |-> "none"]]

\* nothing was called yet
InitExt ==
    /\ lastInit = noInit
    /\ cancelled = noCall
    /\ fetchOut = noCall
    /\ mergeIn = noLists
    /\ mergeOut = noCall
    /\ hashIn = noTexts
    /\ hashOut = <<>>
    /\ queryOut = noCall
    /\ InitLogs

\* everything but the table and the calls
InitRest ==
    /\ conn = TRUE
    /\ lastOp = noOp
    /\ opCount = 0
    /\ is_initialized = FALSE
    /\ mgr_initialized = FALSE
    /\ clients = {}
    /\ seen_bytecode_hashes = emptySeen
    /\ seen_source_hashes = emptySeen
    /\ pc = "idle"
    /\ limit_per_chain = 1
    /\ chainIdx = 1
    /\ addrIdx = 1
    /\ mergeIdx = 1
    /\ procIdx = 1
    /\ contracts = <<>>
    /\ unique_contracts = <<>>
    /\ all_contracts = <<>>
    /\ global_bytecode_hashes = {}
    /\ global_source_hashes = {}
    /\ results = noResult
    /\ returned = noResult
    /\ raised = FALSE
    /\ lastCheck = noCheck
    /\ runNo = 0
    /\ errs = 0
    /\ oks = noOks
    /\ examined = noneExamined
    /\ scanOut = noOut
    /\ storeErrors = 0
    /\ verified = 0
    /\ fetchedB = {}
    /\ fetchedS = {}
    /\ fetchedSame = TRUE
    /\ freshAtStart = TRUE
    /\ prevReturned = noResult
    /\ clock = 0
    /\ task_logs = <<>>
    /\ slotTimes = <<>>
    /\ reqTimes = <<>>
    /\ lastReq = noReq

InitAll ==
    /\ rows = <<>>
    /\ InitRest
    /\ InitExt

\* contracts.db as earlier processes may have left it: empty, or holding
\* what was found before at the first address of ethereum
InitialTables ==
    LET r1 == ContractData(1, "ethereum", <<"a", "b">>, <<"a", " ", "b">>)
    IN  { <<>>, <<NewRow(<<>>, r1, "summary")>> }

\* the state after ContractDatabase() on an empty file, and Web3LOCSystem()
Init == InitAll

\* a new process: Web3LOCSystem() over the contracts.db that is there
InitProcess ==
    \E table \in InitialTables :
        /\ rows = table
        /\ InitRest
        /\ InitExt

Initialize ==
    \E keys \in SUBSET Chains, probes \in SUBSET Chains, token \in BOOLEAN :
        initialize(keys, probes, token) /\ UNCHANGED extVars

Cleanup == cleanup /\ UNCHANGED extVars

Discover ==
    \E limit \in 1..MaxLimit, keys \in SUBSET Chains, probes \in SUBSET Chains,
       token \in BOOLEAN :
        discover_contracts(limit, keys, probes, token) /\ UNCHANGED extVars

ScanAddress ==
    \E src \in SourceReplies, byte \in BytecodeReplies, runsOk \in BOOLEAN :
        scan_address(src, byte, runsOk) /\ UNCHANGED extVars

ScanReturn == scan_return /\ UNCHANGED extVars

MergeContract == merge_contract /\ UNCHANGED extVars

MergeReturn == merge_return /\ UNCHANGED extVars

Collect == collect /\ UNCHANGED extVars

ProcessContract ==
    \E dbError \in BOOLEAN, ghRaises \in BOOLEAN,
       readme \in {"off", "ok", "raises"} :
        process_contract(dbError, ghRaises, readme) /\ UNCHANGED extVars

ReturnResults == return_results /\ UNCHANGED extVars

\* a process that makes one discovery run (main.py discover, final_test.py)
Next ==
    \/ Initialize
    \/ Cleanup
    \/ Discover
    \/ ScanAddress
    \/ ScanReturn
    \/ MergeContract
    \/ MergeReturn
    \/ Collect
    \/ ProcessContract
    \/ ReturnResults

Spec == InitProcess /\ [][Next]_vars

\* the interactive loop of Web3LOCCLIInterface asks for the next command
next_command ==
    /\ pc = "returned"
    /\ runNo < MaxRuns
    /\ pc' = "idle"
    /\ UNCHANGED <<sysVars, storeVars, histVars, rateVars>>
    /\ UNCHANGED <<limit_per_chain, chainIdx, addrIdx, mergeIdx, procIdx,
                   contracts, unique_contracts, all_contracts,
                   global_bytecode_hashes, global_source_hashes, results,
                   returned, raised, lastCheck>>

NextCommand == next_command /\ UNCHANGED extVars

\* calls on a ContractDatabase
NextStore ==
    \/ StoreInsert
    \/ StoreUpdate
    \/ StoreClose

SpecStore ==
    Init /\ [][NextStore /\ UNCHANGED <<sysVars, runVars, histVars, rateVars,
                                        extVars>>]_vars

\* the interactive session: several discovery runs in one process, with
\* explorers, database and payloads in good order
SessionDiscover ==
    \E limit \in 1..MaxLimit, keys \in SUBSET Chains, probes \in SUBSET Chains :
        discover_contracts(limit, keys, probes, FALSE) /\ UNCHANGED extVars

SessionInitialize ==
    \E keys \in SUBSET Chains, probes \in SUBSET Chains :
        initialize(keys, probes, FALSE) /\ UNCHANGED extVars

SessionScanAddress ==
    \E src \in SourceReplies, byte \in BytecodeReplies :
        /\ src.status = "ok"
        /\ byte.status = "ok"
        /\ scan_address(src, byte, TRUE)
        /\ UNCHANGED extVars

SessionProcessContract ==
    process_contract(FALSE, FALSE, "ok") /\ UNCHANGED extVars

NextSession ==
    \/ SessionInitialize
    \/ SessionDiscover
    \/ SessionScanAddress
    \/ ScanReturn
    \/ MergeContract
    \/ MergeReturn
    \/ Collect
    \/ SessionProcessContract
    \/ ReturnResults
    \/ NextCommand

SpecSession == Init /\ [][NextSession]_vars

\* the requests of one client
NextRate ==
    \/ test_connection
    \/ get_contract_source
    \/ get_contract_bytecode
    \/ Tick

SpecRate ==
    Init /\ [][NextRate /\ UNCHANGED <<storeVars, sysVars, runVars, histVars,
                                       extVars>>]_vars

\* ------------------------------------------------- what a fetch method returns
None == [t |-> "None"]
Raised == [t |-> "raise"]

\* an element of the result list of getsourcecode: an object with or without
\* SourceCode, or something that is not an object
ResultItems ==
    {[t |-> "dict", SourceCode |-> v] : v \in {"absent", "", "code"}}
    \cup {[t |-> "str"], [t |-> "null"]}

\* the result member of a payload: absent, null, a string, a list, an object
ResultValues ==
    {[t |-> "absent"], [t |-> "null"], [t |-> "dict"]}
    \cup {[t |-> "str", v |-> v] : v \in {"", "0xab"}}
    \cup {[t |-> "list", items |-> <<>>]}
    \cup {[t |-> "list", items |-> <<i>>] : i \in ResultItems}

\* the body of a response: not JSON, a JSON value that is not an object, or
\* an object with or without status and result
Bodies ==
    {[t |-> "notjson"], [t |-> "list"]}
    \cup {[t |-> "dict", status |-> st, result |-> r] :
            st \in {"1", "0", "absent"}, r \in ResultValues}

\* what session.get meets: a timeout, another exception, or a response
Replies ==
    {[transport |-> "timeout"], [transport |-> "exception"]}
    \cup {[transport |-> "http", code |-> c, body |-> b] :
            c \in {200, 500}, b \in Bodies}

\* Python's truth value of a result member
Truthy(r) ==
    CASE r.t = "absent" -> FALSE
      [] r.t = "null" -> FALSE
      [] r.t = "str" -> r.v # ""
      [] r.t = "list" -> r.items # <<>>
      [] OTHER -> TRUE

\* EnhancedBlockchainClient._make_request, as the value it returns: the
\* payload when the response is 200 and its status is '1'; None for another
\* HTTP code, another status, and for every exception (a timeout, a body
\* that is not JSON, a JSON value without .get)
make_request_returns(reply) ==
    IF reply.transport # "http" THEN None
    ELSE IF reply.code # 200 THEN None
    ELSE IF reply.body.t # "dict" THEN None
    ELSE IF reply.body.status = "1" THEN reply.body
    ELSE None

\* EnhancedBlockchainClient.get_contract_source: response['result'][0] and
\* result.get('SourceCode') are outside any try
get_contract_source_returns(reply) ==
    LET response == make_request_returns(reply)
    IN  IF response.t \in {"None", "raise"} THEN response
        ELSE IF ~Truthy(response.result) THEN None
        ELSE IF response.result.t = "dict" THEN Raised
        ELSE IF response.result.t = "str" THEN Raised
        ELSE LET result == response.result.items[1]
             IN  IF result.t # "dict" THEN Raised
                 ELSE IF result.SourceCode \in {"absent", ""} THEN None
                 ELSE result

\* EnhancedBlockchainClient.get_contract_bytecode: response['result'] as it is
get_contract_bytecode_returns(reply) ==
    LET response == make_request_returns(reply)
    IN  IF response.t \in {"None", "raise"} THEN response
        ELSE IF response.result.t = "absent" THEN None
        ELSE IF response.result.t = "null" THEN None
        ELSE response.result

\* EnhancedBlockchainClient.test_connection: result is not None, inside a try
test_connection_returns(reply) ==
    LET result == make_request_returns(reply)
    IN  IF result.t \in {"None", "raise"} THEN [t |-> "False"]
        ELSE [t |-> "True"]

\* a call of one of the three methods
fetch_call(op, reply) ==
    /\ fetchOut' =
          [op |-> op, reply |-> reply,
           out |-> CASE op = "source" -> get_contract_source_returns(reply)
                     [] op = "bytecode" -> get_contract_bytecode_returns(reply)
                     [] OTHER -> test_connection_returns(reply)]
    /\ UNCHANGED <<storeVars, sysVars, runVars, histVars, rateVars>>
    /\ UNCHANGED <<lastInit, cancelled, mergeIn, mergeOut, hashIn, hashOut,
                   queryOut, logVars>>

FetchSource == \E reply \in Replies : fetch_call("source", reply)

FetchBytecode == \E reply \in Replies : fetch_call("bytecode", reply)

FetchProbe == \E reply \in Replies : fetch_call("probe", reply)

NextFetch ==
    \/ FetchSource
    \/ FetchBytecode
    \/ FetchProbe

SpecFetch == Init /\ [][NextFetch]_vars

\* --------------------------------------- runs, with what initialization met
ChainsInitialize ==
    \E keys \in SUBSET Chains, probes \in SUBSET Chains :
        /\ initialize(keys, probes, FALSE)
        /\ lastInit' = [keys |-> keys, probes |-> probes]
        /\ UNCHANGED <<cancelled, callVars, logVars>>

ChainsDiscover ==
    \E limit \in 1..MaxLimit, keys \in SUBSET Chains, probes \in SUBSET Chains :
        /\ discover_contracts(limit, keys, probes, FALSE)
        /\ lastInit' = IF is_initialized THEN lastInit
                       ELSE [keys |-> keys, probes |-> probes]
        /\ UNCHANGED <<cancelled, callVars, logVars>>

\* a process that initializes, cleans up and makes one run, with explorers
\* that answer every request of the chains they were probed on
NextChains ==
    \/ ChainsInitialize
    \/ Cleanup
    \/ ChainsDiscover
    \/ SessionScanAddress
    \/ ScanReturn
    \/ MergeContract
    \/ MergeReturn
    \/ Collect
    \/ SessionProcessContract
    \/ ReturnResults

SpecChains == Init /\ [][NextChains]_vars

\* ------------------------------------------------------------ cancellation
\* The task that runs discover_contracts is cancelled while a request of a
\* scan is awaited.  asyncio.CancelledError is a BaseException (Python 3.8
\* and later; the code's set[str] annotations are of 3.9), so neither the
\* except Exception of get_verified_contracts, nor that of
\* get_all_verified_contracts, nor that of discover_contracts catches it:
\* it leaves discover_contracts, whose locals are lost.
cancel ==
    /\ pc = "scan"
    /\ addrIdx <= NumCandidates
    /\ cancelled = noCall
    /\ cancelled' = [op |-> "cancel",
                     admitted |-> Len(all_contracts) + Len(contracts),
                     stored |-> Len(rows)]
    /\ pc' = "cancelled"
    /\ raised' = TRUE
    /\ UNCHANGED <<sysVars, storeVars, histVars, rateVars, lastInit, callVars,
                   logVars>>
    /\ UNCHANGED <<limit_per_chain, chainIdx, addrIdx, mergeIdx, procIdx,
                   contracts, unique_contracts, all_contracts,
                   global_bytecode_hashes, global_source_hashes, results,
                   returned, lastCheck>>

Cancel == cancel

\* one run that may be cancelled, with explorers and database in good order
NextCancel ==
    \/ SessionDiscover
    \/ SessionScanAddress
    \/ ScanReturn
    \/ MergeContract
    \/ MergeReturn
    \/ Collect
    \/ SessionProcessContract
    \/ ReturnResults
    \/ Cancel

SpecCancel == Init /\ [][NextCancel]_vars

\* no two records of the list have a hash in common
NoSharedHash(recs) ==
    \A i, j \in 1..Len(recs) :
        i # j => /\ recs[i].bytecode_hash # recs[j].bytecode_hash
                 /\ recs[i].source_hash # recs[j].source_hash

\* ------------------------------------------------------- the global pass
emptyMerge == [all_contracts |-> <<>>,
               global_bytecode_hashes |-> {}, global_source_hashes |-> {}]

\* the inner loop of get_all_verified_contracts over one chain's list,
\* starting from what the chains before it left
RECURSIVE global_pass(_, _)
global_pass(list, acc) ==
    IF list = <<>> THEN acc
    ELSE LET contract == Head(list)
             dup == is_global_duplicate(contract.bytecode_hash,
                                        contract.source_hash,
                                        acc.global_bytecode_hashes,
                                        acc.global_source_hashes)
         IN  global_pass(Tail(list),
                IF dup THEN acc
                ELSE [all_contracts |-> Append(acc.all_contracts, contract),
                      global_bytecode_hashes |->
                          acc.global_bytecode_hashes \cup {contract.bytecode_hash},
                      global_source_hashes |->
                          acc.global_source_hashes \cup {contract.source_hash}])

\* get_all_verified_contracts over two chains' lists, in the order given
merge_in_order(first, second) == global_pass(second, global_pass(first, emptyMerge))

\* what get_verified_contracts of a chain may return under a limit: records
\* at its first addresses, no two with a hash in common
ChainOutputs(chain_name) ==
    LET pairs == BytecodeHashes \X SourceHashes
        rec(i, p) == ContractData(test_addresses(chain_name)[i], chain_name,
                                  p[1], p[2])
    IN  {<<>>}
        \cup {<<rec(1, p)>> : p \in pairs}
        \cup {<<rec(1, p), rec(2, q)>> : p \in pairs, q \in pairs}

\* the lists of the two chains are merged, ethereum first and base first
merge_lists ==
    /\ mergeOut = noCall
    /\ mergeOut' =
          [op |-> "merge",
           ethereum_first |-> merge_in_order(mergeIn.ethereum, mergeIn.base),
           base_first |-> merge_in_order(mergeIn.base, mergeIn.ethereum)]
    /\ UNCHANGED <<storeVars, sysVars, runVars, histVars, rateVars>>
    /\ UNCHANGED <<lastInit, cancelled, fetchOut, mergeIn, hashIn, hashOut,
                   queryOut, logVars>>

MergeLists == merge_lists

InitMerge ==
    /\ rows = <<>>
    /\ InitRest
    /\ lastInit = noInit /\ cancelled = noCall /\ fetchOut = noCall
    /\ mergeOut = noCall /\ hashIn = noTexts /\ hashOut = <<>>
    /\ queryOut = noCall
    /\ InitLogs
    /\ \E e \in ChainOutputs("ethereum"), b \in ChainOutputs("base") :
          /\ NoSharedHash(e)
          /\ NoSharedHash(b)
          /\ mergeIn = [ethereum |-> e, base |-> b]

NextMerge == MergeLists

SpecMerge == InitMerge /\ [][NextMerge]_vars

\* -------------------------------------------------------------- the hashers
\* all sequences over chars of length up to n
RECURSIVE Strings(_, _)
Strings(chars, n) ==
    IF n = 0 THEN {<<>>}
    ELSE LET shorter == Strings(chars, n - 1)
         IN  shorter \cup {Append(t, ch) : t \in shorter, ch \in chars}

\* what eth_getCode gives, and what a caller may make of it: hex digits,
\* with or without a 0x or 0X in front; the scanner skips an empty string
BytecodeTexts ==
    {pre \o body : pre \in {<<>>, <<"0", "x">>, <<"0", "X">>},
                   body \in Strings({"a", "A", "0"}, MaxHexLen)} \ {<<>>}

\* source texts: a letter, the slash of a comment, blanks and line breaks;
\* get_contract_source gives None for an empty SourceCode
SourceTexts == Strings({"a", "/", " ", "\n"}, MaxSrcLen) \ {<<>>}

\* the hasher of the kind is called on text number i
hash_text(i) ==
    /\ hashIn.kind # "none"
    /\ i \notin DOMAIN hashOut
    /\ hashOut' =
          [j \in DOMAIN hashOut \cup {i} |->
              IF j # i THEN hashOut[j]
              ELSE IF hashIn.kind = "bytecode"
                      THEN _generate_bytecode_hash(hashIn.text[i])
                      ELSE _generate_source_hash(hashIn.text[i])]
    /\ UNCHANGED <<storeVars, sysVars, runVars, histVars, rateVars>>
    /\ UNCHANGED <<lastInit, cancelled, fetchOut, mergeIn, mergeOut, hashIn,
                   queryOut, logVars>>

HashFirst == hash_text(1)

HashSecond == hash_text(2)

InitHash ==
    /\ rows = <<>>
    /\ InitRest
    /\ lastInit = noInit /\ cancelled = noCall /\ fetchOut = noCall
    /\ mergeIn = noLists /\ mergeOut = noCall
    /\ hashOut = <<>>
    /\ queryOut = noCall
    /\ InitLogs
    /\ \/ \E a \in BytecodeTexts, b \in BytecodeTexts :
             hashIn = [kind |-> "bytecode", text |-> <<a, b>>]
       \/ \E a \in SourceTexts, b \in SourceTexts :
             hashIn = [kind |-> "source", text |-> <<a, b>>]

NextHash ==
    \/ HashFirst
    \/ HashSecond

SpecHash == InitHash /\ [][NextHash]_vars

\* ------------------------------------------------------------- the queries
\* rows of table contracts with the columns the queries look at; addresses
\* are kept as they were scanned, in mixed case
QueryRowPool ==
    { [address |-> <<"0", "x", "A">>, chain |-> "ethereum",
       name |-> <<"a", "b">>, compiler_version |-> <<"v", "8">>,
       optimization |-> TRUE,
       bytecode_hash |-> <<"a">>, source_hash |-> <<"a">>],
      [address |-> <<"0", "x", "A">>, chain |-> "base",
       name |-> <<"b">>, compiler_version |-> <<"v", "7">>,
       optimization |-> FALSE,
       bytecode_hash |-> <<"b">>, source_hash |-> <<"b">>],
      [address |-> <<"0", "x", "b">>, chain |-> "ethereum",
       name |-> <<"a">>, compiler_version |-> <<"v", "8">>,
       optimization |-> FALSE,
       bytecode_hash |-> <<"c">>, source_hash |-> <<"c">>] }

\* the row as stored at position i: id is AUTOINCREMENT, created_at the time
\* of the insert, later rows being newer
StoredRow(r, i) ==
    [id |-> i, created_at |-> i, contract_summary |-> "summary",
     address |-> r.address, chain |-> r.chain, name |-> r.name,
     compiler_version |-> r.compiler_version, optimization |-> r.optimization,
     bytecode_hash |-> r.bytecode_hash, source_hash |-> r.source_hash]

\* the tables that inserting rows of the pool, each at most once, leads to
QueryTables ==
    {<<>>}
    \cup {<<StoredRow(a, 1)>> : a \in QueryRowPool}
    \cup {<<StoredRow(p[1], 1), StoredRow(p[2], 2)>> :
            p \in {q \in QueryRowPool \X QueryRowPool : q[1] # q[2]}}
    \cup {<<StoredRow(p[1], 1), StoredRow(p[2], 2), StoredRow(p[3], 3)>> :
            p \in {q \in QueryRowPool \X QueryRowPool \X QueryRowPool :
                      q[1] # q[2] /\ q[1] # q[3] /\ q[2] # q[3]}}

\* x LIKE '%sub%' on lower-case text: sub occurs in x
Contains(x, sub) ==
    \E k \in 0..(Len(x) - Len(sub)) : SubSeq(x, k + 1, k + Len(sub)) = sub

FilterKeys == {"chain", "name", "compiler_version", "optimization", "address"}

\* the dict filters: the keys it has, and a value for each key
FilterSets ==
    {[has |-> h, chain |-> "ethereum", name |-> <<"a">>,
      compiler_version |-> <<"8">>, optimization |-> FALSE,
      address |-> <<"0", "x", "A">>] : h \in SUBSET FilterKeys}

\* the WHERE clause built from filters
Matches(row, filters) ==
    /\ "chain" \in filters.has => row.chain = filters.chain
    /\ "name" \in filters.has => Contains(row.name, filters.name)
    /\ "compiler_version" \in filters.has =>
          Contains(row.compiler_version, filters.compiler_version)
    /\ "optimization" \in filters.has => row.optimization = filters.optimization
    /\ "address" \in filters.has => row.address = filters.address

\* ORDER BY created_at DESC
RECURSIVE NewestFirst(_)
NewestFirst(table) ==
    IF table = <<>> THEN <<>>
    ELSE LET newest == CHOOSE i \in 1..Len(table) :
                          \A j \in 1..Len(table) :
                              table[j].created_at <= table[i].created_at
         IN  <<table[newest]>>
             \o NewestFirst(SelectSeq(table, LAMBDA r : r # table[newest]))

\* ContractDatabase.get_contracts(filters, limit, offset); limit 0 stands for
\* None, which `if limit:` treats like 0.  LIMIT is added only for a limit
\* and OFFSET only for an offset; SQLite has no OFFSET without LIMIT, so
\* that statement fails, the exception is caught and [] returned.
get_contracts(table, open, filters, limit, offset) ==
    LET matched == SelectSeq(NewestFirst(table), LAMBDA r : Matches(r, filters))
    IN  IF ~open THEN <<>>
        ELSE IF limit = 0 /\ offset # 0 THEN <<>>
        ELSE IF limit = 0 THEN matched
        ELSE SubSeq(matched, offset + 1, Min(offset + limit, Len(matched)))

\* ContractDatabase.get_contract_by_address(address): the first row with
\* that address, whatever its chain, or None
get_contract_by_address(table, open, address) ==
    IF ~open THEN None
    ELSE IF \E i \in 1..Len(table) : table[i].address = address
        THEN table[CHOOSE i \in 1..Len(table) :
                      /\ table[i].address = address
                      /\ \A j \in 1..(i - 1) : table[j].address # address]
        ELSE None

\* a caller asks for the record at an address on a chain; the method takes
\* the address only
query_by_address(address, chain) ==
    /\ queryOut' = [op |-> "get", address |-> address, chain |-> chain,
                    result |-> get_contract_by_address(rows, conn, address)]
    /\ UNCHANGED <<storeVars, sysVars, runVars, histVars, rateVars>>
    /\ UNCHANGED <<lastInit, cancelled, fetchOut, mergeIn, mergeOut, hashIn,
                   hashOut, logVars>>

query_contracts(filters, limit, offset) ==
    /\ queryOut' = [op |-> "query", filters |-> filters, limit |-> limit,
                    offset |-> offset,
                    result |-> get_contracts(rows, conn, filters, limit, offset)]
    /\ UNCHANGED <<storeVars, sysVars, runVars, histVars, rateVars>>
    /\ UNCHANGED <<lastInit, cancelled, fetchOut, mergeIn, mergeOut, hashIn,
                   hashOut, logVars>>

QueryAddresses == {<<"0", "x", "A">>, <<"0", "x", "a">>, <<"0", "x", "b">>}

QueryByAddress ==
    \E address \in QueryAddresses, chain \in Chains :
        query_by_address(address, chain)

QueryContracts ==
    \E filters \in FilterSets, limit \in 0..MaxQueryLimit,
       offset \in 0..MaxOffset :
        query_contracts(filters, limit, offset)

InitQuery ==
    /\ InitRest
    /\ InitExt
    /\ rows \in QueryTables

NextQuery ==
    \/ QueryByAddress
    \/ QueryContracts

SpecQuery == InitQuery /\ [][NextQuery]_vars

\* ----------------------------------------- scans, iteration by iteration
\* an iteration that asks for the source twice
scan_requests_twice(src) == <<"source", "source">>

\* the requests of one iteration of get_verified_contracts: the source of
\* the address, and its bytecode unless the source check said `continue`
scan_requests(src) ==
    IF src.status = "ok" THEN <<"source", "bytecode">> ELSE <<"source">>

\* one iteration, with a note of it: the address and its place in
\* test_addresses, the requests made and their answers, the hashes when
\* both answers came and whether the payload's Runs is a number, the
\* verdict of the duplicate check, whether the pair was added to the seen
\* sets and whether a record was appended
logged_scan_address(src, byte, runsOk) ==
    LET c == CurChain
        both == src.status = "ok" /\ byte.status = "ok"
    IN  /\ scan_address(src, byte, runsOk)
        /\ scanLog' = Append(scanLog,
              [chain |-> c,
               address |-> test_addresses(c)[addrIdx],
               position |-> addrIdx,
               requests |-> scan_requests(src),
               source |-> src.status,
               bytecode |-> IF src.status = "ok" THEN byte.status ELSE "none",
               bytecode_hash |-> IF both THEN _generate_bytecode_hash(byte.result)
                                 ELSE <<>>,
               source_hash |-> IF both THEN _generate_source_hash(src.SourceCode)
                               ELSE <<>>,
               runs |-> IF both THEN runsOk ELSE TRUE,
               checked |-> lastCheck'.scope = "client",
               dup |-> lastCheck'.scope = "client" /\ lastCheck'.dup,
               admitted |-> \/ seen_bytecode_hashes' # seen_bytecode_hashes
                            \/ seen_source_hashes' # seen_source_hashes,
               emitted |-> contracts' # contracts])
        /\ UNCHANGED <<lastInit, cancelled, callVars, tasks, admitLog, procLog>>

\* get_verified_contracts as a function of what the explorer answers at
\* each candidate, starting from the seen sets given: the list it returns
RECURSIVE get_verified_contracts(_, _, _)
get_verified_contracts(answers, seenB, seenS) ==
    IF answers = <<>> THEN <<>>
    ELSE LET a == Head(answers)
             skipped == \/ a.source # "ok"
                        \/ a.bytecode # "ok"
                        \/ _is_duplicate_contract(a.bytecode_hash, a.source_hash,
                                                  seenB, seenS)
         IN  IF skipped THEN get_verified_contracts(Tail(answers), seenB, seenS)
             ELSE (IF a.runs
                      THEN <<ContractData(a.address, a.chain, a.bytecode_hash,
                                          a.source_hash)>>
                      ELSE <<>>)
                  \o get_verified_contracts(Tail(answers),
                                            seenB \cup {a.bytecode_hash},
                                            seenS \cup {a.source_hash})

LoggedScanAddress ==
    \E src \in SourceReplies, byte \in BytecodeReplies, runsOk \in BOOLEAN :
        logged_scan_address(src, byte, runsOk)

LoggedDiscover ==
    \E limit \in 1..MaxLimit, c \in Chains, probes \in SUBSET Chains :
        /\ discover_contracts(limit, {c}, probes, FALSE)
        /\ scanLog' = <<>>
        /\ UNCHANGED <<lastInit, cancelled, callVars, tasks, admitLog, procLog>>

\* one discovery run of a process that has the API key of one chain, over
\* an explorer that may fail at any address, with the database in good order
NextScan ==
    \/ LoggedDiscover
    \/ LoggedScanAddress
    \/ ScanReturn
    \/ MergeContract
    \/ MergeReturn
    \/ Collect
    \/ SessionProcessContract
    \/ ReturnResults

\* every request is answered or times out (ClientTimeout), and the event
\* loop resumes the coroutine: a step that can be taken is taken
SpecScan == Init /\ [][NextScan]_vars /\ WF_vars(NextScan)

\* ------------------------------------------- two scans on one client
\* Two tasks call get_verified_contracts on the client of ethereum.  A task
\* is suspended where the coroutine awaits: in get_contract_source and in
\* get_contract_bytecode; from the return of get_contract_bytecode to the
\* next get_contract_source nothing is awaited.  The seen sets belong to
\* the client, everything else to the call.
\* the call starts and awaits the source of its first candidate
task_start(t, limit) ==
    /\ tasks[t].pc = "idle"
    /\ tasks' = [tasks EXCEPT ![t] =
                    [pc |-> "source", limit |-> limit, idx |-> 1,
                     source_data |-> None, contracts |-> <<>>]]
    /\ UNCHANGED <<seen_bytecode_hashes, seen_source_hashes, admitLog>>
    /\ UNCHANGED <<storeVars, runVars, histVars, rateVars>>
    /\ UNCHANGED <<is_initialized, mgr_initialized, clients>>
    /\ UNCHANGED <<lastInit, cancelled, callVars, scanLog, procLog>>

\* get_contract_source returns to the task: without verified source the
\* loop continues with the next candidate, else the bytecode is awaited
task_source(t, src) ==
    /\ tasks[t].pc = "source"
    /\ tasks[t].idx <= Min(tasks[t].limit, NumAddr)
    /\ tasks' = [tasks EXCEPT ![t] =
                    IF src.status = "ok"
                       THEN [@ EXCEPT !.pc = "bytecode", !.source_data = src]
                       ELSE [@ EXCEPT !.idx = @ + 1]]
    /\ UNCHANGED <<seen_bytecode_hashes, seen_source_hashes, admitLog>>
    /\ UNCHANGED <<storeVars, runVars, histVars, rateVars>>
    /\ UNCHANGED <<is_initialized, mgr_initialized, clients>>
    /\ UNCHANGED <<lastInit, cancelled, callVars, scanLog, procLog>>

\* get_contract_bytecode returns to the task, which runs to its next await:
\* the hashes, the duplicate check, the two add() calls, the record
task_bytecode(t, byte, runsOk) ==
    LET me == tasks[t]
        c == "ethereum"
        have == byte.status = "ok"
        bytecode_hash == _generate_bytecode_hash(byte.result)
        source_hash == _generate_source_hash(me.source_data.SourceCode)
        dup == _is_duplicate_contract(bytecode_hash, source_hash,
                                      seen_bytecode_hashes[c],
                                      seen_source_hashes[c])
        admitted == have /\ ~dup
    IN  /\ me.pc = "bytecode"
        /\ seen_bytecode_hashes' =
              IF admitted
                 THEN [seen_bytecode_hashes EXCEPT ![c] = @ \cup {bytecode_hash}]
                 ELSE seen_bytecode_hashes
        /\ seen_source_hashes' =
              IF admitted
                 THEN [seen_source_hashes EXCEPT ![c] = @ \cup {source_hash}]
                 ELSE seen_source_hashes
        /\ admitLog' =
              IF admitted
                 THEN Append(admitLog, [task |-> t, bytecode_hash |-> bytecode_hash,
                                        source_hash |-> source_hash])
                 ELSE admitLog
        /\ tasks' = [tasks EXCEPT ![t] =
              [pc |-> "source", limit |-> me.limit, idx |-> me.idx + 1,
               source_data |-> None,
               contracts |->
                  IF admitted /\ runsOk
                     THEN Append(me.contracts,
                                 ContractData(test_addresses(c)[me.idx], c,
                                              bytecode_hash, source_hash))
                     ELSE me.contracts]]
        /\ UNCHANGED <<storeVars, runVars, histVars, rateVars>>
        /\ UNCHANGED <<is_initialized, mgr_initialized, clients>>
        /\ UNCHANGED <<lastInit, cancelled, callVars, scanLog, procLog>>

\* the loop is over and the call returns its list
task_return(t) ==
    /\ tasks[t].pc = "source"
    /\ tasks[t].idx > Min(tasks[t].limit, NumAddr)
    /\ tasks' = [tasks EXCEPT ![t].pc = "done"]
    /\ UNCHANGED <<seen_bytecode_hashes, seen_source_hashes, admitLog>>
    /\ UNCHANGED <<storeVars, runVars, histVars, rateVars>>
    /\ UNCHANGED <<is_initialized, mgr_initialized, clients>>
    /\ UNCHANGED <<lastInit, cancelled, callVars, scanLog, procLog>>

NextTasks ==
    \/ \E t \in {1, 2}, limit \in 1..MaxLimit : task_start(t, limit)
    \/ \E t \in {1, 2}, src \in SourceReplies : task_source(t, src)
    \/ \E t \in {1, 2}, byte \in BytecodeReplies, runsOk \in BOOLEAN :
          task_bytecode(t, byte, runsOk)
    \/ \E t \in {1, 2} : task_return(t)

SpecTasks == Init /\ [][NextTasks]_vars

\* ------------------------------------------------ runs, request by request
\* one iteration, with a note of the requests it made
counted_scan_address(src, byte, runsOk) ==
    /\ scan_address(src, byte, runsOk)
    /\ scanLog' = Append(scanLog,
          [chain |-> CurChain,
           address |-> test_addresses(CurChain)[addrIdx],
           requests |-> scan_requests(src)])
    /\ UNCHANGED <<lastInit, cancelled, callVars, tasks, admitLog, procLog>>

\* the explorers fail, or answer with the same source and bytecode at
\* every address
CountedScanAddress ==
    \E src \in SourceReplies, byte \in BytecodeReplies, runsOk \in BOOLEAN :
        /\ src.status = "ok" => src.SourceCode = <<"c">>
        /\ byte.status = "ok" => byte.result = <<"a", "b">>
        /\ counted_scan_address(src, byte, runsOk)

\* the run starts: the notes are new, and the number of rows in the store
\* is noted
CountedDiscover ==
    \E limit \in 1..MaxLimit, keys \in SUBSET Chains, probes \in SUBSET Chains :
        /\ discover_contracts(limit, keys, probes, FALSE)
        /\ scanLog' = <<>>
        /\ procLog' = [start |-> Len(rows), last |-> [outcome |-> "none"]]
        /\ UNCHANGED <<lastInit, cancelled, callVars, tasks, admitLog>>

\* one discovery run over the chains, with explorers that may fail at any
\* address and the database in good order; what is counted is requests
NextRequests ==
    \/ CountedDiscover
    \/ CountedScanAddress
    \/ ScanReturn
    \/ MergeContract
    \/ MergeReturn
    \/ Collect
    \/ SessionProcessContract
    \/ ReturnResults

SpecRequests == Init /\ [][NextRequests]_vars /\ WF_vars(NextRequests)

\* ------------------------------------------------ runs, record by record
\* one iteration of _process_contracts, with a note of what the record met
logged_process_contract(dbError, ghRaises, readme) ==
    /\ process_contract(dbError, ghRaises, readme)
    /\ procLog' = [procLog EXCEPT !.last =
          [outcome |-> lastOp'.outcome,
           github |-> IF lastOp'.ret /\ ghRaises THEN "raises" ELSE "ok",
           readme |-> IF lastOp'.ret THEN readme ELSE "off"]]
    /\ UNCHANGED <<lastInit, cancelled, callVars, scanLog, tasks, admitLog>>

LoggedProcessContract ==
    \E dbError \in BOOLEAN, ghRaises \in BOOLEAN,
       readme \in {"off", "ok", "raises"} :
        logged_process_contract(dbError, ghRaises, readme)

\* one discovery run of a new process over explorers in good order, with a
\* database, a GitHub storage and a README generator that may fail
NextProcess ==
    \/ CountedDiscover
    \/ SessionScanAddress
    \/ ScanReturn
    \/ MergeContract
    \/ MergeReturn
    \/ Collect
    \/ LoggedProcessContract
    \/ ReturnResults

SpecProcess == InitProcess /\ [][NextProcess]_vars

\* ------------------------------------------------------------------ claims
\* C1: whatever insert_contract and update_contract_summary calls were made
\* on a store that started empty, no two rows share a bytecode hash and no
\* two rows share a source hash.
C1_UniqueHashes == NoSharedHash(rows)

\* two rows are stored, the summary of one was changed, and the last insert
\* was turned away as a duplicate
C1_Witness ==
    /\ Len(rows) = 2
    /\ \E i \in 1..Len(rows) : rows[i].contract_summary = "note"
    /\ lastOp.op = "insert"
    /\ lastOp.outcome = "duplicate"

\* this step is a call of insert_contract on the store
IsStoreInsert == opCount' = opCount + 1 /\ lastOp'.op = "insert"

\* a row has both hashes of the record
StoredPair(table, contract) ==
    \E i \in 1..Len(table) :
        /\ table[i].bytecode_hash = contract.bytecode_hash
        /\ table[i].source_hash = contract.source_hash

\* a row has one of the hashes of the record
StoredEither(table, contract) ==
    \E i \in 1..Len(table) :
        \/ table[i].bytecode_hash = contract.bytecode_hash
        \/ table[i].source_hash = contract.source_hash

\* C2: an insert of a record whose hashes are in no row, on a working store,
\* returns true and adds one row; an insert of a record whose hash pair is
\* already stored returns false (it returns, it does not raise) and leaves
\* every row as it was.
C2_DedupIdempotence ==
    [][IsStoreInsert =>
        /\ (/\ conn
            /\ ~lastOp'.dbError
            /\ ~StoredEither(rows, lastOp'.contract))
           => /\ lastOp'.ret = TRUE
              /\ Len(rows') = Len(rows) + 1
              /\ SubSeq(rows', 1, Len(rows)) = rows
              /\ StoredPair(rows', lastOp'.contract)
        /\ StoredPair(rows, lastOp'.contract)
           => /\ lastOp'.ret = FALSE
              /\ rows' = rows]_vars

\* the record of a stored row was inserted again and turned away
C2_Witness ==
    /\ lastOp.op = "insert"
    /\ lastOp.ret = FALSE
    /\ lastOp.outcome = "duplicate"
    /\ \E i \in 1..Len(rows) :
          /\ rows[i].address = lastOp.contract.address
          /\ rows[i].chain = lastOp.contract.chain
          /\ rows[i].bytecode_hash = lastOp.contract.bytecode_hash
          /\ rows[i].source_hash = lastOp.contract.source_hash

\* C3 in a client: the pair is a duplicate exactly when one of its hashes is
\* in the client's seen sets; a duplicate changes nothing, another pair is
\* admitted to both sets.
C3_Client ==
    (pc = "scan" /\ lastCheck'.scope = "client") =>
        LET c == CurChain
            bh == lastCheck'.bytecode_hash
            sh == lastCheck'.source_hash
        IN  /\ lastCheck'.dup <=> (\/ bh \in seen_bytecode_hashes[c]
                                   \/ sh \in seen_source_hashes[c])
            /\ lastCheck'.dup =>
                  /\ contracts' = contracts
                  /\ seen_bytecode_hashes' = seen_bytecode_hashes
                  /\ seen_source_hashes' = seen_source_hashes
            /\ ~lastCheck'.dup =>
                  /\ bh \in seen_bytecode_hashes'[c]
                  /\ sh \in seen_source_hashes'[c]

\* C3 in the manager: the same with the global sets and the merged list.
C3_Global ==
    (pc = "merge" /\ lastCheck'.scope = "global") =>
        LET bh == lastCheck'.bytecode_hash
            sh == lastCheck'.source_hash
        IN  /\ lastCheck'.dup <=> (\/ bh \in global_bytecode_hashes
                                   \/ sh \in global_source_hashes)
            /\ lastCheck'.dup => unique_contracts' = unique_contracts
            /\ ~lastCheck'.dup =>
                  unique_contracts' = Append(unique_contracts, contracts[mergeIdx])

\* C3 in the store, when the database works: the same with the rows.
C3_Store ==
    (pc = "process" /\ procIdx' = procIdx + 1 /\ lastOp'.outcome # "failed") =>
        /\ (lastOp'.outcome = "duplicate") <=> StoredEither(rows, lastOp'.contract)
        /\ lastOp'.outcome = "duplicate" => rows' = rows
        /\ lastOp'.outcome = "inserted" =>
              /\ Len(rows') = Len(rows) + 1
              /\ StoredPair(rows', lastOp'.contract)

\* C3: in the seen sets of a client, in the global sets of the manager and
\* in the store, a candidate is a duplicate exactly when its bytecode hash
\* or its source hash is already there: one known hash is enough to turn it
\* away, and a candidate with two new hashes is taken.
C3_OrPolicy == [][C3_Client /\ C3_Global /\ C3_Store]_vars

\* a client turned away a pair whose bytecode hash it had seen and whose
\* source hash it had not
C3_Witness ==
    /\ pc = "scan"
    /\ lastCheck.scope = "client"
    /\ lastCheck.dup
    /\ lastCheck.bytecode_hash \in seen_bytecode_hashes[CurChain]
    /\ lastCheck.source_hash \notin seen_source_hashes[CurChain]

\* get_all_verified_contracts has returned
Collected == pc \in {"collected", "process", "returned"}

InSeq(r, recs) == \E i \in 1..Len(recs) : recs[i] = r

\* C4: the merged list never holds two records with the same bytecode hash
\* or the same source hash; when both chains emitted a record with the same
\* bytecode, exactly one of the two is in the merged list.
C4_GlobalDedup ==
    /\ NoSharedHash(all_contracts)
    /\ Collected =>
          \A i \in 1..Len(scanOut["ethereum"]), j \in 1..Len(scanOut["base"]) :
              LET r1 == scanOut["ethereum"][i]
                  r2 == scanOut["base"][j]
              IN  r1.bytecode_hash = r2.bytecode_hash =>
                      InSeq(r1, all_contracts) # InSeq(r2, all_contracts)

\* both chains emitted a record with the same bytecode and different source
C4_Witness ==
    /\ pc = "collected"
    /\ \E i \in 1..Len(scanOut["ethereum"]), j \in 1..Len(scanOut["base"]) :
          /\ scanOut["ethereum"][i].bytecode_hash = scanOut["base"][j].bytecode_hash
          /\ scanOut["ethereum"][i].source_hash # scanOut["base"][j].source_hash
    /\ Len(all_contracts) >= 1

\* C5: when every request of chain A failed, a run over A and B still
\* examines every candidate of B, and the merged list is the list B's scan
\* returned, whether A comes before B or after it.
C5_FailureIsolation ==
    Collected =>
        \A a, b \in clients :
            (a # b /\ examined[a] >= 1 /\ ~oks[a]) =>
                /\ examined[b] = NumCandidates
                /\ all_contracts = scanOut[b]

\* every request of ethereum, the first chain, failed, and base emitted
C5_Witness ==
    /\ pc = "collected"
    /\ clients = Chains
    /\ ~oks["ethereum"]
    /\ examined["ethereum"] = 2
    /\ errs = 2
    /\ Len(scanOut["base"]) = 2
    /\ all_contracts = scanOut["base"]

\* C6: the errors field of the result counts every failure of the run:
\* failed requests, exceptions at an address, failed inserts.
C6_ErrorsCounted ==
    (pc = "returned" /\ returned.kind = "result") =>
        returned.errors = errs + storeErrors

\* a first run on an empty store with one chain and limit 2, whose two
\* candidates came back verified, well-formed and with different source and
\* different bytecode, and whose inserts worked
C7_Scenario ==
    /\ pc = "returned"
    /\ freshAtStart
    /\ Cardinality(clients) = 1
    /\ limit_per_chain = 2
    /\ verified = 2
    /\ errs = 0
    /\ storeErrors = 0
    /\ Cardinality(fetchedB) = 2
    /\ Cardinality(fetchedS) = 2

\* C7: a first run on an empty store with one chain and limit 2, whose two
\* candidates come back verified and distinct in content, adds 2 records
\* and reports 0 duplicates.
C7_EndToEnd ==
    C7_Scenario =>
        /\ returned.kind = "result"
        /\ returned.contracts_added = 2
        /\ returned.duplicates_found = 0

\* the scenario, with both records in the store
C7_Witness ==
    /\ C7_Scenario
    /\ returned.contracts_added = 2
    /\ Len(rows) = 2

\* C8: a run that fetches, at two addresses, what the run before it stored
\* for these addresses adds nothing and reports 2 duplicates, with the
\* clients of the run before as with new ones.
C8_SecondRun ==
    (/\ pc = "returned"
     /\ runNo >= 2
     /\ prevReturned.kind = "result"
     /\ prevReturned.contracts_added = 2
     /\ verified = 2
     /\ fetchedSame)
    => /\ returned.kind = "result"
       /\ returned.contracts_added = 0
       /\ returned.duplicates_found = 2

\* the number of requests made at the times t .. t + Period
RequestsIn(t) ==
    Cardinality({ i \in 1..Len(reqTimes) : reqTimes[i] \in t..(t + Period) })

\* C9: in any second a client makes at most 4 requests, probes, source and
\* bytecode together; each request has a slot of its own taken no later
\* than the request; the slot of a failed request stays taken.
C9_RateAdherence ==
    /\ \A t \in 0..MaxTime : RequestsIn(t) <= RateLimit
    /\ Len(reqTimes) <= Len(slotTimes)
    /\ \A i \in 1..Len(reqTimes) : slotTimes[i] <= reqTimes[i]
    /\ (lastReq.kind # "none" /\ lastReq.at = clock) =>
          /\ task_logs # <<>>
          /\ task_logs[Len(task_logs)] = lastReq.at

\* four requests in one instant, the last of them failed, and a fifth that
\* had to wait for the period to pass
C9_Witness ==
    /\ Len(reqTimes) >= 5
    /\ reqTimes[4] = 0
    /\ reqTimes[5] > Period
    /\ lastReq.kind = "bytecode"
    /\ lastReq.status = "exception"

WellFormed(op, reply) ==
    /\ reply.transport = "http"
    /\ reply.code = 200
    /\ reply.body.t = "dict"
    /\ reply.body.status = "1"
    /\ CASE op = "source" ->
              /\ reply.body.result.t = "list"
              /\ reply.body.result.items # <<>>
              /\ reply.body.result.items[1].t = "dict"
         [] op = "bytecode" -> reply.body.result.t = "str"
         [] OTHER -> TRUE

NoData(op) == IF op = "probe" THEN [t |-> "False"] ELSE None

\* C11: get_contract_source, get_contract_bytecode and test_connection never
\* raise, and every upstream failure (another HTTP code, a status that is
\* not '1', a payload of another shape, a timeout, an exception) gives None,
\* or False from the probe.
C11_FetchNeverRaises ==
    fetchOut.op # "none" =>
        /\ fetchOut.out # Raised
        /\ ~WellFormed(fetchOut.op, fetchOut.reply) =>
              fetchOut.out = NoData(fetchOut.op)

\* C12: an initialization that completed had an API key for every supported
\* chain: a chain without a key aborts it.
C12_MissingKeyFatal == is_initialized => lastInit.keys = Chains

\* C13: requests go only to chains that were constructed with a key and
\* answered the probe at the last initialization; every other chain stays
\* out of the manager's clients until the next initialization.
C13_ScanAfterConnect ==
    /\ clients \subseteq (lastInit.keys \cap lastInit.probes)
    /\ pc # "idle" =>
          \A c \in Chains :
              examined[c] > 0 => c \in (lastInit.keys \cap lastInit.probes)

\* a run is over in which base, with a key and a failed probe, got no
\* request while ethereum was scanned
C13_Witness ==
    /\ pc = "returned"
    /\ lastInit.keys = Chains
    /\ lastInit.probes = {"ethereum"}
    /\ examined["ethereum"] = 2
    /\ examined["base"] = 0
    /\ clients = {"ethereum"}

\* C14: a run cancelled while its scans are in flight makes no further
\* request and returns a result that holds the records admitted until then.
C14_CancelKeepsWork ==
    cancelled.op = "cancel" =>
        /\ pc \in {"cancelled", "returned"}
        /\ returned.kind = "result"
        /\ returned.contracts_processed >= cancelled.admitted

\* C15: the global pass over the lists of two chains admits as many records,
\* and the same bytecode hashes and source hashes, whichever list goes
\* first.
C15_MergeCommutes ==
    mergeOut.op = "merge" =>
        /\ Len(mergeOut.ethereum_first.all_contracts)
              = Len(mergeOut.base_first.all_contracts)
        /\ mergeOut.ethereum_first.global_bytecode_hashes
              = mergeOut.base_first.global_bytecode_hashes
        /\ mergeOut.ethereum_first.global_source_hashes
              = mergeOut.base_first.global_source_hashes

\* a text in lower case
LowerText(s) == [i \in 1..Len(s) |-> Lower(s[i])]

\* a text without the 0x or 0X it starts with
StripPrefix(s) ==
    IF Len(s) >= 2 /\ s[1] = "0" /\ s[2] \in {"x", "X"}
        THEN SubSeq(s, 3, Len(s))
        ELSE s

BothHashed(kind) == hashIn.kind = kind /\ DOMAIN hashOut = {1, 2}

\* C16: the bytecode hash is the digest of the bytecode in lower case
\* without its leading 0x: two bytecode strings get the same hash exactly
\* when they are equal after lower-casing and dropping a leading 0x or 0X,
\* in whichever order they are hashed.
C16_BytecodeHash ==
    /\ hashIn.kind = "bytecode" =>
          \A i \in DOMAIN hashOut :
              hashOut[i] = Sha256(LowerText(StripPrefix(hashIn.text[i])))
    /\ BothHashed("bytecode") =>
          ((hashOut[1] = hashOut[2])
             <=> (LowerText(StripPrefix(hashIn.text[1]))
                    = LowerText(StripPrefix(hashIn.text[2]))))

\* 0XA0 and a0 were hashed, the second one first, and got one hash
C16_Witness ==
    /\ BothHashed("bytecode")
    /\ hashIn.text = << <<"0", "X", "A", "0">>, <<"a", "0">> >>
    /\ hashOut[1] = hashOut[2]

\* a text without the whitespace it starts with
RECURSIVE DropSpaces(_)
DropSpaces(s) ==
    IF s # <<>> /\ IsSpace(Head(s)) THEN DropSpaces(Tail(s)) ELSE s

\* every run of whitespace turned into one blank
RECURSIVE CollapseRuns(_)
CollapseRuns(s) ==
    IF s = <<>> THEN <<>>
    ELSE IF IsSpace(Head(s)) THEN <<" ">> \o CollapseRuns(DropSpaces(s))
    ELSE <<Head(s)>> \o CollapseRuns(Tail(s))

\* a collapsed text without the blank at its start and at its end
Trim(s) ==
    LET t == IF s # <<>> /\ s[1] = " " THEN Tail(s) ELSE s
    IN  IF t # <<>> /\ t[Len(t)] = " " THEN SubSeq(t, 1, Len(t) - 1) ELSE t

IsStoreUpdate == opCount' = opCount + 1 /\ lastOp'.op = "update"

RowsAt(address, chain) ==
    {i \in 1..Len(rows) :
        /\ LowerText(rows[i].address) = LowerText(address)
        /\ rows[i].chain = chain}

\* C19: asking for the record at an address on a chain gives a stored row of
\* that chain whose address is the same up to case, and None exactly when
\* there is no such row.
C19_GetContract ==
    queryOut.op = "get" =>
        IF RowsAt(queryOut.address, queryOut.chain) = {}
            THEN queryOut.result = None
            ELSE \E i \in RowsAt(queryOut.address, queryOut.chain) :
                    queryOut.result = rows[i]

\* the positions of the rows that satisfy the filters, newest first
RECURSIVE MatchingNewestFirst(_, _)
MatchingNewestFirst(i, filters) ==
    IF i = 0 THEN <<>>
    ELSE (IF Matches(rows[i], filters) THEN <<i>> ELSE <<>>)
         \o MatchingNewestFirst(i - 1, filters)

\* C20: get_contracts returns the rows that satisfy every filter given,
\* newest first, without the first offset of them, and at most limit of
\* them, all the rest when no limit is given.
C20_QueryContracts ==
    queryOut.op = "query" =>
        LET all == MatchingNewestFirst(Len(rows), queryOut.filters)
            rest == IF queryOut.offset >= Len(all) THEN 0
                    ELSE Len(all) - queryOut.offset
            n == IF queryOut.limit = 0 THEN rest
                 ELSE Min(queryOut.limit, rest)
        IN  /\ Len(queryOut.result) = n
            /\ \A k \in 1..n :
                  queryOut.result[k] = rows[all[queryOut.offset + k]]

\* C21: a scan that has returned emitted at most limit records, and when it
\* emitted fewer than limit it had examined every address of test_addresses.
C21_ScanUntilLimit ==
    pc = "merge" =>
        /\ Len(contracts) <= limit_per_chain
        /\ Len(contracts) < limit_per_chain => examined[CurChain] = NumAddr

\* the notes of the iterations that appended a record
EmittedEntries == SelectSeq(scanLog, LAMBDA e : e.emitted)

\* a scan is in progress or has just returned its list
InScan == pc \in {"scan", "merge"}

\* C22: every record a scan emits is that of a candidate whose source came
\* back verified, whose bytecode came back, and whose hashes no earlier
\* candidate of the scan had brought into the seen sets; bytecode is not
\* requested for an address whose source is not verified; no two records of
\* the scan share a bytecode hash or a source hash.
C22_EmittedAreVerified ==
    InScan =>
        /\ Len(contracts) = Len(EmittedEntries)
        /\ \A i \in 1..Len(contracts) :
              /\ contracts[i].address = EmittedEntries[i].address
              /\ contracts[i].bytecode_hash = EmittedEntries[i].bytecode_hash
              /\ contracts[i].source_hash = EmittedEntries[i].source_hash
        /\ \A i \in 1..Len(scanLog) :
              /\ scanLog[i].emitted =>
                    /\ scanLog[i].source = "ok"
                    /\ scanLog[i].bytecode = "ok"
                    /\ scanLog[i].checked /\ ~scanLog[i].dup
                    /\ \A j \in 1..(i - 1) :
                          scanLog[j].admitted =>
                              /\ scanLog[j].bytecode_hash # scanLog[i].bytecode_hash
                              /\ scanLog[j].source_hash # scanLog[i].source_hash
              /\ scanLog[i].source # "ok" => scanLog[i].requests = <<"source">>
        /\ NoSharedHash(contracts)

\* a scan of two addresses: the first was not verified, the second emitted
C22_Witness ==
    /\ pc = "merge"
    /\ Len(scanLog) = 2
    /\ scanLog[1].source = "unverified"
    /\ scanLog[2].emitted
    /\ Len(contracts) = 1

\* the list without its element number k
Without(list, k) == SubSeq(list, 1, k - 1) \o SubSeq(list, k + 1, Len(list))

\* the iteration met a failure: a request that failed, source that is not
\* verified, no bytecode, or an exception while the record was assembled
FailedAt(e) == ~e.emitted /\ ~e.dup

\* C23: a failure at one candidate does not fail the scan: every candidate
\* of the list is processed, and the list the scan returns is the list a
\* scan of the same candidates without the failing one returns.
C23_FailureSkipsAddress ==
    pc = "merge" =>
        /\ Len(scanLog) = NumCandidates
        /\ ~raised
        /\ \A k \in 1..Len(scanLog) :
              FailedAt(scanLog[k]) =>
                  contracts = get_verified_contracts(Without(scanLog, k), {}, {})

\* what the loop gives step by step is what the function gives
ScanAsFunction ==
    pc = "merge" => contracts = get_verified_contracts(scanLog, {}, {})

\* the step adds a hash to a seen set of client c
AdmitsAt(c) ==
    \/ seen_bytecode_hashes'[c] \ seen_bytecode_hashes[c] # {}
    \/ seen_source_hashes'[c] \ seen_source_hashes[c] # {}

\* the step adds a hash to a global set
AdmitsGlobally ==
    \/ global_bytecode_hashes' \ global_bytecode_hashes # {}
    \/ global_source_hashes' \ global_source_hashes # {}

C24_Client ==
    /\ \A c \in Chains :
          AdmitsAt(c) =>
              /\ pc = "scan" /\ c = CurChain
              /\ lastCheck'.scope = "client" /\ ~lastCheck'.dup
              /\ lastCheck'.bytecode_hash \notin seen_bytecode_hashes[c]
              /\ lastCheck'.source_hash \notin seen_source_hashes[c]
              /\ seen_bytecode_hashes'[c] =
                    seen_bytecode_hashes[c] \cup {lastCheck'.bytecode_hash}
              /\ seen_source_hashes'[c] =
                    seen_source_hashes[c] \cup {lastCheck'.source_hash}
    /\ (pc = "scan" /\ pc' = "scan" /\ contracts' # contracts) =>
          /\ AdmitsAt(CurChain)
          /\ Len(contracts') = Len(contracts) + 1
          /\ contracts'[Len(contracts')].bytecode_hash = lastCheck'.bytecode_hash
          /\ contracts'[Len(contracts')].source_hash = lastCheck'.source_hash
    /\ (lastCheck'.scope = "client" /\ lastCheck'.dup) =>
          /\ seen_bytecode_hashes' = seen_bytecode_hashes
          /\ seen_source_hashes' = seen_source_hashes

C24_Global ==
    /\ AdmitsGlobally =>
          /\ pc = "merge"
          /\ lastCheck'.scope = "global" /\ ~lastCheck'.dup
          /\ lastCheck'.bytecode_hash \notin global_bytecode_hashes
          /\ lastCheck'.source_hash \notin global_source_hashes
          /\ global_bytecode_hashes' =
                global_bytecode_hashes \cup {lastCheck'.bytecode_hash}
          /\ global_source_hashes' =
                global_source_hashes \cup {lastCheck'.source_hash}
    /\ (pc = "merge" /\ pc' = "merge" /\ unique_contracts' # unique_contracts) =>
          /\ AdmitsGlobally
          /\ Len(unique_contracts') = Len(unique_contracts) + 1
    /\ (lastCheck'.scope = "global" /\ lastCheck'.dup) =>
          /\ global_bytecode_hashes' = global_bytecode_hashes
          /\ global_source_hashes' = global_source_hashes

\* C24: in a client and in the manager, hashes are added to the seen sets
\* only in the step whose duplicate check of that very pair said no, both
\* hashes being new to the sets; every record accepted comes with exactly
\* one such addition, of its own pair; a pair judged duplicate adds nothing.
C24_AdmitAfterCheck == [][C24_Client /\ C24_Global]_vars

\* a client has admitted two pairs, the second just now, and emitted both
C24_Witness ==
    /\ pc = "scan"
    /\ lastCheck.scope = "client"
    /\ ~lastCheck.dup
    /\ Len(contracts) = 2
    /\ Cardinality(seen_bytecode_hashes[CurChain]) = 2
    /\ lastCheck.bytecode_hash \in seen_bytecode_hashes[CurChain]

\* C25: however two scans on one client interleave at their awaits, no two
\* additions to the client's seen sets are of the same bytecode hash or of
\* the same source hash: two tasks never both find the same content new
\* and both admit it.
C25_CheckAdmitAtomic == NoSharedHash(admitLog)

\* task 1 holds the source of its candidate and awaits the bytecode, and
\* task 2 has meanwhile admitted a pair with that very source
C25_Witness ==
    /\ tasks[1].pc = "bytecode"
    /\ tasks[2].pc = "source"
    /\ Len(admitLog) = 1
    /\ admitLog[1].task = 2
    /\ admitLog[1].source_hash
          = _generate_source_hash(tasks[1].source_data.SourceCode)

\* the place of an address in the candidate list of the chain scanned
PlaceOf(address) ==
    CHOOSE k \in 1..NumAddr : test_addresses(CurChain)[k] = address

\* C26: the records of a scan's list are in the order of the candidate
\* list: of two records, the earlier one has the earlier address.
C26_EmissionOrder ==
    InScan =>
        \A i, j \in 1..Len(contracts) :
            i < j => PlaceOf(contracts[i].address) < PlaceOf(contracts[j].address)

\* a scan returned the records of its first and second candidate
C26_Witness ==
    /\ pc = "merge"
    /\ Len(contracts) = 2
    /\ contracts[1].address = test_addresses(CurChain)[1]
    /\ contracts[2].address = test_addresses(CurChain)[2]

\* how often the request is in the list
Times(requests, kind) ==
    Cardinality({i \in 1..Len(requests) : requests[i] = kind})

\* no address is examined twice, a chain's iterations are not resumed after
\* another chain's, and an iteration asks at most once for source and at
\* most once for bytecode
NothingRetried ==
    /\ \A i, j \in 1..Len(scanLog) :
          i # j => scanLog[i].address # scanLog[j].address
    /\ \A i, j, k \in 1..Len(scanLog) :
          (i < k /\ k < j /\ scanLog[i].chain = scanLog[j].chain) =>
              scanLog[k].chain = scanLog[i].chain
    /\ \A i \in 1..Len(scanLog) :
          /\ Times(scanLog[i].requests, "source") <= 1
          /\ Times(scanLog[i].requests, "bytecode") <= 1
    /\ \A c \in Chains : examined[c] <= NumCandidates

\* C27: in a discovery run no chain is scanned a second time, whatever
\* failed in its scan, no address is asked twice for its source or twice
\* for its bytecode, and the run returns.
C27_NoRetry == []NothingRetried /\ ((pc # "idle") ~> (pc = "returned"))

\* a run over both chains has returned; every request of ethereum failed
C27_Witness ==
    /\ pc = "returned"
    /\ Len(scanLog) = 4
    /\ ~oks["ethereum"]
    /\ scanLog[1].chain = "ethereum"
    /\ scanLog[4].chain = "base"
    /\ scanLog[4].requests = <<"source", "bytecode">>

\* C28: every hash in the seen sets of a client is a hash of a record the
\* client emitted.
C28_SeenAreEmitted ==
    InScan =>
        /\ \A h \in seen_bytecode_hashes[CurChain] :
              \E i \in 1..Len(contracts) : contracts[i].bytecode_hash = h
        /\ \A h \in seen_source_hashes[CurChain] :
              \E i \in 1..Len(contracts) : contracts[i].source_hash = h

\* C29: insert_contract returns False only for a record one of whose hashes
\* is already stored, and duplicates_found of a result is the number of
\* such records: an insert that failed is not among them.
C29_FalseMeansDuplicate ==
    /\ (lastOp.op = "insert" /\ ~lastOp.ret) => lastOp.outcome = "duplicate"
    /\ (pc = "returned" /\ returned.kind = "result" /\ returned.success) =>
          returned.duplicates_found
            = returned.contracts_processed - returned.contracts_added
              - storeErrors

\* the step is an iteration of _process_contracts
IsProcessStep == pc = "process" /\ procIdx' = procIdx + 1

\* C30: each record of the list is counted once, as added when its insert
\* made a row and as duplicate otherwise, whatever GitHub storage and README
\* generation did; in the result _process_contracts returns the three
\* counts add up to contracts_processed, and contracts_added is the number
\* of rows the store gained in the run.
C30_CountedOnce ==
    [][/\ IsProcessStep =>
            LET inserted == procLog'.last.outcome = "inserted"
            IN  /\ results'.contracts_processed = results.contracts_processed
                /\ results'.contracts_added =
                      results.contracts_added + (IF inserted THEN 1 ELSE 0)
                /\ results'.duplicates_found =
                      results.duplicates_found + (IF inserted THEN 0 ELSE 1)
                /\ results'.errors = results.errors
                /\ results'.contracts_added + results'.duplicates_found
                      + results'.errors = procIdx
       /\ (pc = "process" /\ pc' = "returned") =>
            /\ returned'.contracts_added + returned'.duplicates_found
                  + returned'.errors = returned'.contracts_processed
            /\ returned'.contracts_processed = Len(all_contracts)
            /\ returned'.contracts_added = Len(rows') - procLog'.start
      ]_vars

\* a run returned after two records: one was turned away by the store, the
\* other was inserted, its GitHub upload and its README both failing
C30_Witness ==
    /\ pc = "returned"
    /\ returned.kind = "result"
    /\ returned.contracts_processed = 2
    /\ returned.contracts_added = 1
    /\ returned.duplicates_found = 1
    /\ procLog.last.outcome = "inserted"
    /\ procLog.last.github = "raises"
    /\ procLog.last.readme = "raises"

====
